---- MODULE Spec2Model ----
(***************************************************************************)
(* A model of gar_tool: the chunk planner, the SQLite progress store and   *)
(* the run loop.  The repository holds two implementations of the same     *)
(* program: the package src/gar_tool/ ("pkg") and the single-file script   *)
(* src/batch_doc_analyzer.py ("mono").  Both are modelled, each from its   *)
(* own source; the variable impl says which one a behaviour runs.          *)
(***************************************************************************)
EXTENDS Integers, Sequences, FiniteSets, TLC

(***************************************************************************)
(* Bounds of the model.                                                    *)
(***************************************************************************)
MaxLen == 5
MaxChunkSize == 4

Impls == {"pkg", "mono"}

\* the characters a document is made of: an ordinary letter, a blank, a line
\* break, a sentence terminator and a markdown block marker
Alphabet == {"a", " ", "\n", ".", "-"}

\* the documents of the data folder and their (immutable) text
Files == {"f1", "f2"}

\* the order the data folder is listed in
listdir == <<"f1", "f2">>

Content(f) == IF f = "f1" THEN <<"a", ".", "b">> ELSE <<"a", "b">>

\* the chunk sizes, run tags and failure limits a run is configured with
ChunkSizes == {2, 3}

RunTags == {"A", "B"}

\* the modules that read a global named signal_received.  In gar_tool each has
\* a binding of its own: helpers.py defines it and its handler assigns it,
\* main.py imports the name and assigns False to it at module level,
\* analyzer.py imports the name; an import binds the value of the moment.  In
\* batch_doc_analyzer.py the three are the one global of the script.
Modules == {"helpers", "main", "analyzer"}

NoSignal == [m \in Modules |-> FALSE]

MaxFailuresBound == 2

\* caps on the rows of REQUEST_LOG and on the number of runs, for the run loop
\* and for the store on its own
MaxAttempts == 3
MaxRuns == 2
StoreMaxAttempts == 3
StoreMaxRuns == 2

VARIABLES
    impl,           \* which implementation runs: "pkg" or "mono"
    plan_pc, text_content, chunk_size, chunks,   \* the planner on its own
    clock,          \* the last reading of the wall clock
    fchunks,        \* table FCHUNKS: rows (file, chunknumber, start, end)
    request_log,    \* table REQUEST_LOG: rows (id, file, chunknumber, timestamp, success)
    results,        \* the results table: rows (request_id, file, chunknumber, run_tag)
    run_tag,        \* config.run_tag
    max_failures,   \* config.inconfig_values.max_failures
    start_iso,      \* start_iso of the current run
    runs,           \* how many runs were started
    pc,             \* where the process is
    nodes,          \* the configured nodes: "none" or "required"
    error_count,    \* logger.error_count
    warning_count,  \* logger.warning_count
    cur,            \* the chunk process_chunk works on: <<file, chunknumber>>
    cur_request_id, \* request_id returned by log_request
    batch,          \* pkg: unprocessed_chunks_for_file still to process
    files_completed_this_run,  \* pkg: the set of that name in main
    signal_received,   \* the global of that name, as each module reads it
    summaries,      \* the run summaries the process has emitted
    request_sent,   \* whether the last process_chunk posted a request
    response,       \* the content get_llm_response returned, as tokens
    json_response,  \* what clean_json_response returned, and from which stage
    result          \* the ProcessingResult of process_chunk's pipeline

planvars == <<plan_pc, text_content, chunk_size, chunks>>
storevars == <<fchunks, request_log, results>>
runvars == <<run_tag, max_failures, start_iso, runs>>
procvars == <<nodes, error_count, warning_count, cur, cur_request_id, batch,
              files_completed_this_run>>
sigvars == <<signal_received, summaries, request_sent>>
pipevars == <<response, json_response, result>>
vars == <<impl, plan_pc, text_content, chunk_size, chunks, clock, fchunks,
          request_log, results, run_tag, max_failures, start_iso, runs, pc,
          nodes, error_count, warning_count, cur, cur_request_id, batch,
          files_completed_this_run, signal_received, summaries, request_sent,
          response, json_response, result>>

\* Python's None where parsed data is expected
None == [kind |-> "none", keys |-> {}]
\* no answer cleaned yet, and process_chunk's result as it starts
NoJson == [stage |-> 0, data |-> None]
NoResult == [success |-> FALSE, extracted_data |-> None]

(***************************************************************************)
(* Python helpers: strings are sequences of characters, offsets are        *)
(* 0-based and slices are half-open, as in the source.                     *)
(***************************************************************************)
Min(a, b) == IF a <= b THEN a ELSE b

SetMax(S) == CHOOSE x \in S : \A y \in S : y <= x

\* s[i] with a 0-based offset
At(s, i) == s[i + 1]

\* s[a:b]
Slice(s, a, b) == SubSeq(s, a + 1, Min(b, Len(s)))

\* regex \s, [\.\!\?], [\-\*\#] and \d over the alphabet
IsSpace(c) == c \in {" ", "\n"}

IsTerminator(c) == c \in {".", "!", "?"}

IsMarker(c) == c \in {"-", "*", "#"}

IsDigit(c) == c \in {"0", "1"}

\* all of w[a:b] satisfies \s
AllSpace(w, a, b) == \A k \in a..(b - 1) : IsSpace(At(w, k))

\* the largest element of a set of offsets, -1 for the empty set
MaxOrNone(S) == IF S = {} THEN -1 ELSE SetMax(S)

\* the smallest element of a set of offsets, -1 for the empty set
MinOrNone(S) == IF S = {} THEN -1 ELSE CHOOSE x \in S : \A y \in S : x <= y

\* the lengths m for which w[j:j+m] is a run of markers, of digits
MarkerRuns(w, j) ==
    {m \in 1..(Len(w) - j) : \A k \in j..(j + m - 1) : IsMarker(At(w, k))}

DigitRuns(w, j) ==
    {m \in 1..(Len(w) - j) : \A k \in j..(j + m - 1) : IsDigit(At(w, k))}

\* [\-\*\#]+\s at offset j, the run being the longest (longest == -1: no run):
\* the exclusive end of the match, or -1
MarkerAlt(w, j, longest) ==
    IF longest # -1 /\ j + longest < Len(w) /\ IsSpace(At(w, j + longest))
    THEN j + longest + 1
    ELSE -1

\* \d+\.\s at offset j: the exclusive end of the match, or -1
DigitAlt(w, j, m) == IF m = -1 THEN -1 ELSE j + m + 2

\* the first alternative that matches decides
FirstAlt(first, second) == IF first # -1 THEN first ELSE second

\* the exclusive end of the match of [\-\*\#]+\s|\d+\.\s at offset j, or -1
MarkerEnd(w, j) ==
    FirstAlt(MarkerAlt(w, j, MaxOrNone(MarkerRuns(w, j))),
             DigitAlt(w, j, MaxOrNone({m \in DigitRuns(w, j) :
                                          /\ j + m + 1 < Len(w)
                                          /\ At(w, j + m) = "."
                                          /\ IsSpace(At(w, j + m + 1))})))

\* MarkerEnd at the offset the greedy \s* stops at (-1: nowhere)
MarkerEndAt(w, j) == IF j = -1 THEN -1 ELSE MarkerEnd(w, j)

\* re.match of one of the planner's patterns at offset i of w: the exclusive
\* end of the match (greedy, first alternative first), or -1
\*   "para"     \n\s*\n
\*   "line"     \n
\*   "sentence" [\.\!\?]\s|[\.\!\?]$
\*   "sentws"   [\.\!\?]\s
\*   "markdown" \n\s*([\-\*\#]+\s|\d+\.\s)
MatchEnd(pat, w, i) ==
    CASE pat = "para" ->
            IF At(w, i) # "\n" THEN -1
            ELSE MaxOrNone({e \in (i + 2)..Len(w) :
                               At(w, e - 1) = "\n" /\ AllSpace(w, i + 1, e - 1)})
      [] pat = "line" ->
            IF At(w, i) = "\n" THEN i + 1 ELSE -1
      [] pat = "sentence" ->
            IF ~IsTerminator(At(w, i)) THEN -1
            ELSE IF i + 1 < Len(w) /\ IsSpace(At(w, i + 1)) THEN i + 2
            ELSE IF i + 1 = Len(w) \/ (i + 2 = Len(w) /\ At(w, i + 1) = "\n") THEN i + 1
            ELSE -1
      [] pat = "sentws" ->
            IF IsTerminator(At(w, i)) /\ i + 1 < Len(w) /\ IsSpace(At(w, i + 1))
            THEN i + 2 ELSE -1
      [] pat = "markdown" ->
            IF At(w, i) # "\n" THEN -1
            ELSE MarkerEndAt(w, MaxOrNone({j \in (i + 1)..(Len(w) - 1) :
                                             AllSpace(w, i + 1, j) /\ MarkerEnd(w, j) # -1}))

\* list(re.finditer(pat, w)): the non-overlapping matches from left to right,
\* each as <<start, end>>
RECURSIVE FindIterFrom(_, _, _)
\* the match that starts at i and the matches after its end e
FindIterEmit(pat, w, i, e) == <<<<i, e>>>> \o FindIterFrom(pat, w, e)

\* the matches from the first offset i a match starts at (-1: none)
FindIterAt(pat, w, i) ==
    IF i = -1 THEN <<>> ELSE FindIterEmit(pat, w, i, MatchEnd(pat, w, i))

FindIterFrom(pat, w, pos) ==
    FindIterAt(pat, w, MinOrNone({i \in pos..(Len(w) - 1) : MatchEnd(pat, w, i) # -1}))

finditer(pat, w) == FindIterFrom(pat, w, 0)

Last(s) == s[Len(s)]

(***************************************************************************)
(* gar_tool/file_processor.py calculate_chunks                             *)
(***************************************************************************)
\* the tiers with the markdown tier asked first
FirstTierMarkdownFirst(start, para, line, sent, mark) ==
    IF mark # <<>> THEN start + Last(mark)[1]
    ELSE IF para # <<>> THEN start + Last(para)[2]
    ELSE IF line # <<>> THEN start + Last(line)[2]
    ELSE IF sent # <<>> THEN start + Last(sent)[2]
    ELSE -1

\* the tiers without their order: of the boundaries found, the one closest
\* to the end of the window
FirstTierNearest(start, para, line, sent, mark) ==
    SetMax({-1}
           \cup {start + Last(m)[2] : m \in {t \in {para, line, sent} : t # <<>>}}
           \cup {start + Last(m)[1] : m \in {t \in {mark} : t # <<>>}})

\* the four tiers in the order of the code: the first list of matches that is
\* not empty gives the split point, the end of its last match (the start, for
\* the markdown tier); -1 if every list is empty
FirstTier(start, para, line, sent, mark) ==
    IF para # <<>> THEN start + Last(para)[2]
    ELSE IF line # <<>> THEN start + Last(line)[2]
    ELSE IF sent # <<>> THEN start + Last(sent)[2]
    ELSE IF mark # <<>> THEN start + Last(mark)[1]
    ELSE -1

\* the split point one window gives
SplitPoint(start, window) ==
    FirstTier(start, finditer("para", window), finditer("line", window),
              finditer("sentence", window), finditer("markdown", window))

\* an end one character past the window where no split point was found
EndOfOverrun(start, potential_end, split_point) ==
    IF split_point > start THEN split_point ELSE potential_end + 1

\* end = split_point if it lies after start, else potential_end
EndOf(start, potential_end, split_point) ==
    IF split_point > start THEN split_point ELSE potential_end

\* if end <= start and start < content_len: end = potential_end
ForceProgress(text, start, potential_end, end) ==
    IF end <= start /\ start < Len(text) THEN potential_end ELSE end

\* the end of the chunk that starts at start, from potential_end on
ChunkEndIn(text, start, potential_end) ==
    ForceProgress(text, start, potential_end,
                  EndOf(start, potential_end,
                        SplitPoint(start, Slice(text, start, potential_end))))

\* ChunkEnd with potential_end = start + chunk_size, the min(..., content_len)
\* left out
ChunkEndUnclamped(text, size, start) == ChunkEndIn(text, start, start + size)

\* the end of the chunk that starts at start
ChunkEnd(text, size, start) == ChunkEndIn(text, start, Min(start + size, Len(text)))

RECURSIVE ChunkLoop(_, _, _, _, _)
\* a loop that spends one pass on every chunk without moving start
ChunkLoopStepIdle(text, size, start, acc, safety_counter, end) ==
    ChunkLoop(text, size, end, acc \o <<<<start, start>>, <<start, end>>>>, safety_counter + 2)

\* chunks.append((start, end)); start = end
ChunkLoopStep(text, size, start, acc, safety_counter, end) ==
    ChunkLoop(text, size, end, Append(acc, <<start, end>>), safety_counter + 1)

ChunkLoop(text, size, start, acc, safety_counter) ==
    IF start < Len(text) /\ safety_counter < Len(text) + 100
    THEN ChunkLoopStep(text, size, start, acc, safety_counter, ChunkEnd(text, size, start))
    ELSE acc

\* after the loop: the last chunk is made to reach the end of the text, a
\* text that gave no chunk is one chunk
AfterLoop(text, looped) ==
    IF looped # <<>> /\ Last(looped)[2] < Len(text)
    THEN Append(looped, <<Last(looped)[2], Len(text)>>)
    ELSE IF looped = <<>> THEN <<<<0, Len(text)>>>>
    ELSE looped

calculate_chunks(text, size) ==
    IF text = <<>> THEN <<>>
    ELSE IF Len(text) <= size THEN <<<<0, Len(text)>>>>
    ELSE AfterLoop(text, ChunkLoop(text, size, 0, <<>>, 0))

(***************************************************************************)
(* batch_doc_analyzer.py DocumentAnalyzer.calculate_chunks                 *)
(***************************************************************************)
\* a hard cut one character past the window
MonoEndOfOverrun(content, size, start, match) ==
    IF match = <<>> THEN Min(start + size + 1, Len(content))
    ELSE start + Last(match)[2]

\* end = start + the end of the last match, or the hard cut without a match
MonoEndOf(content, size, start, match) ==
    IF match = <<>> THEN Min(start + size, Len(content))
    ELSE start + Last(match)[2]

MonoChunkEnd(content, size, start) ==
    MonoEndOf(content, size, start,
              finditer("sentws", Slice(content, start, start + size)))

RECURSIVE MonoChunkLoop(_, _, _, _)
\* chunks.append((start, end)); start = end
MonoChunkLoopStep(content, size, start, acc, end) ==
    MonoChunkLoop(content, size, end, Append(acc, <<start, end>>))

MonoChunkLoop(content, size, start, acc) ==
    IF start < Len(content)
    THEN MonoChunkLoopStep(content, size, start, acc, MonoChunkEnd(content, size, start))
    ELSE acc

mono_calculate_chunks(content, size) ==
    IF content = <<>> THEN <<>>
    ELSE IF Len(content) <= size THEN <<<<0, Len(content)>>>>
    ELSE MonoChunkLoop(content, size, 0, <<>>)

Plan(i, text, size) ==
    IF i = "pkg" THEN calculate_chunks(text, size) ELSE mono_calculate_chunks(text, size)

(***************************************************************************)
(* The planner on its own: any content up to MaxLen characters, any chunk  *)
(* size up to MaxChunkSize, planned by either implementation.              *)
(***************************************************************************)
Texts == UNION {[1..n -> Alphabet] : n \in 0..MaxLen}

PlanInit ==
    /\ impl \in Impls
    /\ plan_pc = "input"
    /\ text_content \in Texts
    /\ chunk_size \in 1..MaxChunkSize
    /\ chunks = <<>>
    /\ clock = 0
    /\ fchunks = <<>>
    /\ request_log = <<>>
    /\ results = {}
    /\ run_tag = "A"
    /\ max_failures = 1
    /\ start_iso = 0
    /\ runs = 0
    /\ pc = "planner"
    /\ nodes = "required"
    /\ error_count = 0
    /\ warning_count = 0
    /\ cur = <<>>
    /\ cur_request_id = -1
    /\ batch = <<>>
    /\ files_completed_this_run = {}
    /\ signal_received = NoSignal
    /\ summaries = <<>>
    /\ request_sent = FALSE
    /\ response = <<>>
    /\ json_response = NoJson
    /\ result = NoResult

PlanPkg ==
    /\ plan_pc = "input"
    /\ impl = "pkg"
    /\ chunks' = calculate_chunks(text_content, chunk_size)
    /\ plan_pc' = "planned"
    /\ UNCHANGED <<impl, pipevars, text_content, chunk_size, clock, storevars, runvars, pc, procvars, sigvars>>

PlanMono ==
    /\ plan_pc = "input"
    /\ impl = "mono"
    /\ chunks' = mono_calculate_chunks(text_content, chunk_size)
    /\ plan_pc' = "planned"
    /\ UNCHANGED <<impl, pipevars, text_content, chunk_size, clock, storevars, runvars, pc, procvars, sigvars>>

PlanNext == PlanPkg \/ PlanMono

PlanSpec == PlanInit /\ [][PlanNext]_vars

\* C1: for a non-empty document and a positive chunk size the plan is a
\* partition of [0, len(content)): it is not empty, the first chunk starts at
\* 0, the last one ends at len(content), each chunk starts where the one
\* before it ends, and every chunk has end > start.
C1_Partition ==
    (plan_pc = "planned" /\ text_content # <<>>) =>
        /\ chunks # <<>>
        /\ chunks[1][1] = 0
        /\ chunks[Len(chunks)][2] = Len(text_content)
        /\ \A i \in 1..Len(chunks) : chunks[i][2] > chunks[i][1]
        /\ \A i \in 1..(Len(chunks) - 1) : chunks[i + 1][1] = chunks[i][2]

\* a document longer than the chunk size was planned, and the first chunk
\* was cut at a boundary before the size was used up
C1_Witness ==
    /\ plan_pc = "planned"
    /\ Len(text_content) > chunk_size
    /\ Len(chunks) >= 2
    /\ chunks[1][2] < chunk_size

(***************************************************************************)
(* The progress store.  Timestamps are readings of the wall clock; every   *)
(* reading is later than the one before (get_current_timestamp_iso has     *)
(* microsecond resolution and a commit or a request lies between any two   *)
(* readings), and ISO strings of one zone compare as the instants do.      *)
(***************************************************************************)
Range(s) == {s[i] : i \in 1..Len(s)}

\* FailedRows with the timestamp condition left out: every failure ever logged
FailedRowsAllTime(file, chunknumber, since, strict) ==
    {i \in 1..Len(request_log) :
        /\ request_log[i].file = file
        /\ request_log[i].chunknumber = chunknumber
        /\ request_log[i].success = FALSE}

\* rows of REQUEST_LOG counted by the failure sub-query: same file and chunk,
\* success = 0, timestamp after (strict) or not before (not strict) since
FailedRows(file, chunknumber, since, strict) ==
    {i \in 1..Len(request_log) :
        /\ request_log[i].file = file
        /\ request_log[i].chunknumber = chunknumber
        /\ request_log[i].success = FALSE
        /\ IF strict THEN request_log[i].timestamp > since
                     ELSE request_log[i].timestamp >= since}

\* HasExcessFailures with HAVING COUNT(*) > ?
HasExcessFailuresOffByOne(file, chunknumber, since, strict) ==
    Cardinality(FailedRows(file, chunknumber, since, strict)) > max_failures

\* NOT EXISTS (... GROUP BY rl.file, rl.chunknumber HAVING COUNT(*) >= ?):
\* a group exists only when a row was counted
HasExcessFailures(file, chunknumber, since, strict) ==
    LET n == Cardinality(FailedRows(file, chunknumber, since, strict))
    IN  n >= 1 /\ n >= max_failures

\* ORDER BY c.chunknumber
RECURSIVE InsertByChunk(_, _)
InsertByChunk(sorted, row) ==
    IF sorted = <<>> THEN <<row>>
    ELSE IF Last(sorted).chunknumber <= row.chunknumber THEN Append(sorted, row)
    ELSE Append(InsertByChunk(SubSeq(sorted, 1, Len(sorted) - 1), row), Last(sorted))

RECURSIVE OrderByChunk(_)
OrderByChunk(rows) ==
    IF rows = <<>> THEN <<>>
    ELSE InsertByChunk(OrderByChunk(SubSeq(rows, 1, Len(rows) - 1)), Last(rows))

RowKeys(rows) == [i \in 1..Len(rows) |-> <<rows[i].file, rows[i].chunknumber>>]

\* get_unprocessed_chunks with the results filter of an untagged run
\* (r.run_tag IS NULL) whatever the run_tag
get_unprocessed_chunks_untagged(filename, since) ==
    LET Keep(c) ==
            /\ c.file = filename
            /\ ~HasExcessFailures(c.file, c.chunknumber, since, FALSE)
    IN  IF run_tag = "" THEN <<>>
        ELSE RowKeys(OrderByChunk(SelectSeq(fchunks, Keep)))

\* gar_tool/database_handler.py Database.get_unprocessed_chunks
get_unprocessed_chunks(filename, since) ==
    LET HasResult(c) ==
            \E r \in results :
                /\ r.file = c.file
                /\ r.chunknumber = c.chunknumber
                /\ r.run_tag = run_tag
        Keep(c) ==
            /\ c.file = filename
            /\ ~HasResult(c)
            /\ ~HasExcessFailures(c.file, c.chunknumber, since, FALSE)
    IN  \* an empty run_tag leaves the filter out and still binds the parameter:
        \* the statement fails and the method returns []
        IF run_tag = "" THEN <<>>
        ELSE RowKeys(OrderByChunk(SelectSeq(fchunks, Keep)))

\* mono_get_unprocessed_chunks with the LEFT JOIN on the results table (and
\* its IS NULL test) left out
mono_get_unprocessed_chunks_nojoin(filename, since) ==
    LET Keep(c) ==
            /\ c.file = filename
            /\ ~HasExcessFailures(c.file, c.chunknumber, since, TRUE)
    IN  RowKeys(SelectSeq(fchunks, Keep))

\* mono_get_unprocessed_chunks joined to the successful rows of REQUEST_LOG
\* instead of the results table
mono_get_unprocessed_chunks_logjoin(filename, since) ==
    LET Joined(c) ==
            \E i \in 1..Len(request_log) :
                /\ request_log[i].file = c.file
                /\ request_log[i].chunknumber = c.chunknumber
                /\ request_log[i].success
        Keep(c) ==
            /\ ~Joined(c)
            /\ c.file = filename
            /\ ~HasExcessFailures(c.file, c.chunknumber, since, TRUE)
    IN  RowKeys(SelectSeq(fchunks, Keep))

\* mono_get_unprocessed_chunks with the run_tag condition of the join left
\* out: a row of the results table under any tag joins
mono_get_unprocessed_chunks_anytag(filename, since) ==
    LET Joined(c) ==
            \E r \in results :
                /\ r.file = c.file
                /\ r.chunknumber = c.chunknumber
        Keep(c) ==
            /\ ~Joined(c)
            /\ c.file = filename
            /\ ~HasExcessFailures(c.file, c.chunknumber, since, TRUE)
    IN  RowKeys(SelectSeq(fchunks, Keep))

\* batch_doc_analyzer.py Database.get_unprocessed_chunks
mono_get_unprocessed_chunks(filename, since) ==
    LET Joined(c) ==
            \E r \in results :
                /\ r.file = c.file
                /\ r.chunknumber = c.chunknumber
                /\ (run_tag # "" => r.run_tag = run_tag)
        Keep(c) ==
            /\ ~Joined(c)
            /\ c.file = filename
            /\ ~HasExcessFailures(c.file, c.chunknumber, since, TRUE)
    IN  RowKeys(SelectSeq(fchunks, Keep))

Unprocessed(filename, since) ==
    IF impl = "pkg" THEN get_unprocessed_chunks(filename, since)
    ELSE mono_get_unprocessed_chunks(filename, since)

\* a chunk_exists that never finds a row
chunk_exists_never(filename) == FALSE

\* Database.chunk_exists
chunk_exists(filename) == \E c \in Range(fchunks) : c.file = filename

\* the rows insert_chunks builds from a plan
ChunkRows(file, plan) ==
    [i \in 1..Len(plan) |->
        [file |-> file, chunknumber |-> i - 1, start |-> plan[i][1], end |-> plan[i][2]]]

\* gar_tool/database_handler.py Database.insert_chunks: FCHUNKS has no usable
\* key (its PRIMARY KEY is a placeholder column that stays NULL)
insert_chunks(file, plan) == fchunks \o ChunkRows(file, plan)

\* batch_doc_analyzer.py Database.insert_chunks: PRIMARY KEY (file, chunknumber);
\* a duplicate key fails the statement and nothing is committed
mono_insert_chunks(file, plan) ==
    IF \E c \in Range(fchunks) : c.file = file /\ c.chunknumber < Len(plan)
    THEN fchunks
    ELSE fchunks \o ChunkRows(file, plan)

\* insert_chunks of the implementation that runs
register_chunks(file, plan) ==
    IF impl = "pkg" THEN insert_chunks(file, plan) ELSE mono_insert_chunks(file, plan)

\* an INSERT OR REPLACE keyed by the chunk: the earlier rows of the chunk go
log_request_replace(file, chunknumber, timestamp, success) ==
    Append(SelectSeq(request_log, LAMBDA row : ~(row.file = file /\ row.chunknumber = chunknumber)),
           [id |-> Len(request_log) + 1, file |-> file, chunknumber |-> chunknumber,
            timestamp |-> timestamp, success |-> success])

\* Database.log_request: one row appended, id = lastrowid
log_request(file, chunknumber, timestamp, success) ==
    Append(request_log,
           [id |-> Len(request_log) + 1, file |-> file, chunknumber |-> chunknumber,
            timestamp |-> timestamp, success |-> success])

\* a store that keeps the last record only
store_results_last_only(request_id, file, chunknumber) ==
    {[request_id |-> request_id, file |-> file,
      chunknumber |-> chunknumber, run_tag |-> run_tag]}

\* Database.store_results: request_id is the PRIMARY KEY of the results table,
\* a second row for it is refused
store_results(request_id, file, chunknumber) ==
    IF \E r \in results : r.request_id = request_id THEN results
    ELSE results \cup {[request_id |-> request_id, file |-> file,
                        chunknumber |-> chunknumber, run_tag |-> run_tag]}

(***************************************************************************)
(* The store on its own: any caller, any sequence of its operations.       *)
(***************************************************************************)
\* the values of max_failures the validation lets through: cli.py
\* non_negative_int and validate_runtime_config accept 0, the script's
\* validate_config_values wants at least 1
MaxFailuresValues(i) == IF i = "pkg" THEN 0..MaxFailuresBound ELSE 1..MaxFailuresBound

\* the documents the callers of the store work on
StoreFiles == {"f1"}

StoreInit ==
    /\ impl \in Impls
    /\ plan_pc = "unused"
    /\ text_content = <<>>
    /\ chunk_size = 1
    /\ chunks = <<>>
    /\ clock = 1
    /\ fchunks = <<>>
    /\ request_log = <<>>
    /\ results = {}
    /\ run_tag \in RunTags
    /\ max_failures \in MaxFailuresValues(impl)
    /\ start_iso = 1
    /\ runs = 1
    /\ pc = "store"
    /\ nodes = "required"
    /\ error_count = 0
    /\ warning_count = 0
    /\ cur = <<>>
    /\ cur_request_id = -1
    /\ batch = <<>>
    /\ files_completed_this_run = {}
    /\ signal_received = NoSignal
    /\ summaries = <<>>
    /\ request_sent = FALSE
    /\ response = <<>>
    /\ json_response = NoJson
    /\ result = NoResult

\* a new run opens the store: main reads start_iso and the configuration
StoreNewRun ==
    /\ pc = "store"
    /\ runs < StoreMaxRuns
    /\ runs' = runs + 1
    /\ clock' = clock + 1
    /\ start_iso' = clock + 1
    /\ run_tag' \in RunTags
    /\ max_failures' \in MaxFailuresValues(impl)
    /\ UNCHANGED <<impl, pipevars, planvars, storevars, pc, procvars, sigvars>>

StoreInsertChunks ==
    /\ pc = "store"
    /\ \E f \in StoreFiles, size \in ChunkSizes :
         /\ ~chunk_exists(f)
         /\ fchunks' = register_chunks(f, Plan(impl, Content(f), size))
    /\ UNCHANGED <<impl, pipevars, planvars, clock, request_log, results, runvars, pc, procvars, sigvars>>

StoreLogRequest ==
    /\ pc = "store"
    /\ Len(request_log) < StoreMaxAttempts
    /\ \E c \in Range(fchunks), ok \in BOOLEAN :
         request_log' = log_request(c.file, c.chunknumber, clock + 1, ok)
    /\ clock' = clock + 1
    /\ UNCHANGED <<impl, pipevars, planvars, fchunks, results, runvars, pc, procvars, sigvars>>

StoreStoreResults ==
    /\ pc = "store"
    /\ \E id \in 1..Len(request_log) :
         results' = store_results(id, request_log[id].file, request_log[id].chunknumber)
    /\ UNCHANGED <<impl, pipevars, planvars, clock, fchunks, request_log, runvars, pc, procvars, sigvars>>

StoreNext == StoreNewRun \/ StoreInsertChunks \/ StoreLogRequest \/ StoreStoreResults

StoreSpec == StoreInit /\ [][StoreNext]_vars

(***************************************************************************)
(* The terms the properties are stated in, read off the tables.            *)
(***************************************************************************)
\* the chunks registered for a document
Registered(f) == {<<c.file, c.chunknumber>> : c \in {r \in Range(fchunks) : r.file = f}}

\* the chunk has an extracted record under the tag
HasRecord(k, tag) ==
    \E r \in results : r.file = k[1] /\ r.chunknumber = k[2] /\ r.run_tag = tag

\* the failed attempts on a chunk with from <= timestamp < to
FailedAttempts(k, from, to) ==
    {i \in 1..Len(request_log) :
        /\ request_log[i].file = k[1]
        /\ request_log[i].chunknumber = k[2]
        /\ ~request_log[i].success
        /\ from <= request_log[i].timestamp
        /\ request_log[i].timestamp < to}

\* the failed attempts on a chunk since the run started
FailedThisRun(k) == FailedAttempts(k, start_iso, clock + 1)

\* what the pending query of the running implementation returns now
Pending(f) == Range(Unprocessed(f, start_iso))

\* C2: the pending query returns exactly the registered chunks of the document
\* that have no record under the run's tag and fewer than max_failures failed
\* attempts with a timestamp >= the start of the run; successes and failures
\* from before the start of the run do not count.
C2_PendingExact ==
    \A f \in Files :
        Pending(f) =
            {k \in Registered(f) :
                /\ ~HasRecord(k, run_tag)
                /\ Cardinality(FailedThisRun(k)) < max_failures}

\* C3: whatever was registered, logged and stored, the pending query never
\* returns a chunk that has a record under the run's tag.
C3_DoneNeverPending ==
    \A f \in Files : \A k \in Pending(f) : ~HasRecord(k, run_tag)

\* a chunk with a record under the run's tag and failures left is not
\* returned, while another chunk of its document is
C3_Witness ==
    \E f \in Files : \E k \in Registered(f) :
        /\ HasRecord(k, run_tag)
        /\ Cardinality(FailedThisRun(k)) < max_failures
        /\ k \notin Pending(f)
        /\ Pending(f) # {}

\* C7: with max_failures = 2, a chunk with 2 failed attempts since the run
\* started is not returned for the rest of the run; in a later run it has no
\* new failure in, the same chunk (still without a record under the run's
\* tag) is returned again.
C7_WindowResets ==
    max_failures = 2 =>
        \A f \in Files : \A k \in Registered(f) :
            /\ Cardinality(FailedThisRun(k)) >= 2 => k \notin Pending(f)
            /\ ( /\ Cardinality(FailedAttempts(k, 0, start_iso)) >= 2
                 /\ FailedThisRun(k) = {}
                 /\ ~HasRecord(k, run_tag) ) => k \in Pending(f)

\* a later run with max_failures = 2: the chunk failed twice before the run
\* started, has no failure since, and is returned
C7_Witness ==
    /\ max_failures = 2
    /\ runs >= 2
    /\ \E f \in Files : \E k \in Pending(f) :
         /\ Cardinality(FailedAttempts(k, 0, start_iso)) >= 2
         /\ FailedThisRun(k) = {}

(***************************************************************************)
(* The run loop: main of either implementation, one process at a time on   *)
(* one database.  A run ends when nothing is pending, when the logger's    *)
(* budget is exceeded, or when the process is killed; the next run opens   *)
(* the same database with a configuration of its own.                      *)
(***************************************************************************)
MAX_PASSABLE_EXECUTION_ERRORS == 3
MAX_PASSABLE_WARNINGS == 10

\* nodes = "none": the configuration has an empty nodes dictionary;
\* nodes = "required": it has a node, marked required
NodeConfigs == {"none", "required"}

\* what the service and the cleaning of its answer can come to:
\*   ok           a JSON object with every expected node
\*   ok_empty     valid JSON that is falsy ({} or []), nothing expected missing
\*   transport    the request fails (HTTP error, timeout)
\*   envelope     a response without content
\*   unparseable  content with no JSON in it
\*   missing      a JSON object with an expected node missing
Outcomes == {"ok", "ok_empty", "transport", "envelope", "unparseable", "missing"}

\* the outcomes the configuration allows: a node can be missing only if one is
\* expected; with a node expected, {} has it missing
Possible(outcome) ==
    /\ outcome = "missing" => nodes # "none"
    /\ outcome = "ok_empty" => nodes = "none"

\* ProcessingResult.success
Success(outcome) == outcome \in {"ok", "ok_empty"}

\* the logger calls get_llm_response and clean_json_response make, in order
PipelineLogs(outcome) ==
    IF outcome = "transport" THEN <<"error">>
    ELSE IF outcome = "unparseable" THEN <<"warning", "warning">>
    ELSE <<>>

\* gar_tool/analyzer.py process_chunk, Stage 3 and after: db.log_request is
\* called with three arguments, the method takes four, the TypeError is caught
\* and logged as an error; db_success stays False and a warning follows
PkgStage3Logs == <<"error", "warning">>

\* a logger that lets one more call through than the limits say
RECURSIVE LogAll_late(_, _, _)
LogAll_late(ec, wc, calls) ==
    IF calls = <<>> THEN [error_count |-> ec, warning_count |-> wc, exited |-> FALSE]
    ELSE LET ec1 == IF Head(calls) = "error" THEN ec + 1 ELSE ec
             wc1 == IF Head(calls) = "warning" THEN wc + 1 ELSE wc
         IN  IF ec1 > MAX_PASSABLE_EXECUTION_ERRORS + 1 \/ wc1 > MAX_PASSABLE_WARNINGS + 1
             THEN [error_count |-> ec1, warning_count |-> wc1, exited |-> TRUE]
             ELSE LogAll_late(ec1, wc1, Tail(calls))

\* a logger whose counters are streaks: a step of the loop that logs neither
\* an error nor a warning sets both back to zero
LogAll_consecutive(ec, wc, calls) ==
    IF calls = <<>> THEN [error_count |-> 0, warning_count |-> 0, exited |-> FALSE]
    ELSE LET ec1 == ec + Cardinality({i \in DOMAIN calls : calls[i] = "error"})
             wc1 == wc + Cardinality({i \in DOMAIN calls : calls[i] = "warning"})
         IN  [error_count |-> ec1, warning_count |-> wc1,
              exited |-> ec1 > MAX_PASSABLE_EXECUTION_ERRORS
                            \/ wc1 > MAX_PASSABLE_WARNINGS]

\* LoggerWrapper._log over a sequence of calls: the counters, and whether
\* sys.exit(1) was reached
RECURSIVE LogAll(_, _, _)
LogAll(ec, wc, calls) ==
    IF calls = <<>> THEN [error_count |-> ec, warning_count |-> wc, exited |-> FALSE]
    ELSE LET ec1 == IF Head(calls) = "error" THEN ec + 1 ELSE ec
             wc1 == IF Head(calls) = "warning" THEN wc + 1 ELSE wc
         IN  IF ec1 > MAX_PASSABLE_EXECUTION_ERRORS \/ wc1 > MAX_PASSABLE_WARNINGS
             THEN [error_count |-> ec1, warning_count |-> wc1, exited |-> TRUE]
             ELSE LogAll(ec1, wc1, Tail(calls))

\* lastrowid read before the INSERT: the id of the row before
lastrowid_stale(log) == Len(log) - 1

\* cursor.lastrowid after the INSERT into REQUEST_LOG
lastrowid(log) == Len(log)

Running == {"select", "execute", "logged", "batch"}

Init ==
    /\ impl \in Impls
    /\ nodes \in NodeConfigs
    /\ plan_pc = "unused"
    /\ text_content = <<>>
    /\ chunk_size = 1
    /\ chunks = <<>>
    /\ clock = 0
    /\ fchunks = <<>>
    /\ request_log = <<>>
    /\ results = {}
    /\ run_tag = "A"
    /\ max_failures = 1
    /\ start_iso = 0
    /\ runs = 0
    /\ pc = "idle"
    /\ error_count = 0
    /\ warning_count = 0
    /\ cur = <<>>
    /\ cur_request_id = -1
    /\ batch = <<>>
    /\ files_completed_this_run = {}
    /\ signal_received = NoSignal
    /\ summaries = <<>>
    /\ request_sent = FALSE
    /\ response = <<>>
    /\ json_response = NoJson
    /\ result = NoResult

\* main up to the loop: the configuration is read, the database opened, the
\* logger is new, start_iso is the time now
StartRun ==
    /\ pc \notin Running
    /\ runs < MaxRuns
    /\ runs' = runs + 1
    /\ clock' = clock + 1
    /\ start_iso' = clock + 1
    /\ run_tag' \in RunTags
    /\ max_failures' \in MaxFailuresValues(impl)
    /\ chunk_size' \in ChunkSizes
    /\ error_count' = 0
    /\ warning_count' = 0
    /\ cur' = <<>>
    /\ cur_request_id' = -1
    /\ batch' = <<>>
    /\ files_completed_this_run' = {}
    /\ signal_received' = NoSignal
    /\ summaries' = <<>>
    /\ request_sent' = FALSE
    /\ pc' = "select"
    /\ UNCHANGED <<impl, pipevars, nodes, plan_pc, text_content, chunks, storevars>>

\* the loop, discovery: a file without chunks is planned with the chunk size
\* of this run and registered
Discover(f) ==
    /\ pc = "select"
    /\ ~chunk_exists(f)
    /\ \A i \in 1..Len(listdir) :
         listdir[i] = f => \A j \in 1..(i - 1) : chunk_exists(listdir[j])
    /\ fchunks' = register_chunks(f, Plan(impl, Content(f), chunk_size))
    /\ UNCHANGED <<impl, pipevars, planvars, clock, request_log, results, runvars, pc, procvars, sigvars>>

\* the collection stopping after the first file of the folder
AllUnprocessed_first(fs) ==
    IF fs = <<>> THEN <<>> ELSE Unprocessed(Head(fs), start_iso)

RECURSIVE AllUnprocessed(_)
AllUnprocessed(fs) ==
    IF fs = <<>> THEN <<>>
    ELSE Unprocessed(Head(fs), start_iso) \o AllUnprocessed(Tail(fs))

\* the text of a file as the process reads it: what Content says, and for
\* the first file of the folder, where plan_pc = "disk", what is left of it
\* after it was cut short
FileText(f) ==
    IF plan_pc = "disk" /\ f = listdir[1] THEN text_content ELSE Content(f)

\* Database.get_chunk_bounds: the first row of FCHUNKS with the key
get_chunk_bounds(filename, chunk_number) ==
    Head(SelectSeq(fchunks,
                   LAMBDA c : c.file = filename /\ c.chunknumber = chunk_number))

\* text_content[chunk_bounds[0]:chunk_bounds[1]] (get_chunk_content in the script)
get_chunk_content(text, chunk_bounds) == Slice(text, chunk_bounds.start, chunk_bounds.end)

\* the content process_chunk works on for chunk k = <<file, chunknumber>>
ChunkContent(k) == get_chunk_content(FileText(k[1]), get_chunk_bounds(k[1], k[2]))

\* whether process_chunk posts a request for the content: gar_tool's stage 1
\* returns before the request if the content is empty, the script has no
\* such test
SendsRequest(content) == impl = "mono" \/ content # <<>>

\* the logger calls of gar_tool's process_chunk: for empty content the
\* warning of stage 1 and the error of its db.log_request (three arguments
\* again), otherwise the pipeline's and stage 3's
PkgProcessLogs(content, outcome) ==
    IF content = <<>> THEN <<"warning", "error">>
    ELSE PipelineLogs(outcome) \o PkgStage3Logs

\* a run summary: the window it was asked for, and whether the connection
\* was open when it was made.  The end of the window is the time now, which
\* no timestamp in the store exceeds.
RunSummary(end_iso, connection) ==
    [start_iso |-> start_iso, end_iso |-> end_iso, connection |-> connection]

\* the finally block of main, which runs on every way out of the loop: with
\* the flag main reads unset, the script logs db.get_run_summary; gar_tool's
\* Database has no get_run_summary, the AttributeError is logged as an error
main_finally(flags, ec) ==
    IF flags["main"] THEN [summaries |-> summaries, error_count |-> ec]
    ELSE IF impl = "mono"
         THEN [summaries |-> Append(summaries, RunSummary(clock, TRUE)),
               error_count |-> ec]
         ELSE [summaries |-> summaries, error_count |-> ec + 1]

\* batch_doc_analyzer.py main, one pass of the loop once every file has its
\* chunks: the pending chunks of all files are collected; none: the run is
\* done; otherwise random.choice picks the one to process
MonoSelect ==
    /\ impl = "mono"
    /\ pc = "select"
    /\ \A f \in Files : chunk_exists(f)
    /\ LET unprocessed == AllUnprocessed(listdir)
       IN  IF unprocessed = <<>>
           THEN /\ pc' = "done"
                /\ cur' = <<>>
                /\ summaries' = main_finally(signal_received, error_count).summaries
           ELSE /\ pc' = "execute"
                /\ cur' \in Range(unprocessed)
                /\ UNCHANGED summaries
    /\ UNCHANGED <<impl, pipevars, planvars, clock, storevars, runvars, nodes, error_count,
                   warning_count, cur_request_id, batch, files_completed_this_run,
                   signal_received, request_sent>>

\* batch_doc_analyzer.py process_chunk up to the commit of log_request: the
\* request, the cleaning and the node check with their logger calls, then one
\* row of REQUEST_LOG.  A result that is a success with data goes on to
\* store_results; any other returns to the loop.
MonoProcessChunk(outcome) ==
    /\ impl = "mono"
    /\ pc = "execute"
    /\ Possible(outcome)
    /\ request_sent' = SendsRequest(ChunkContent(cur))
    /\ LET logged == LogAll(error_count, warning_count, PipelineLogs(outcome))
       IN  /\ logged.exited \/ Len(request_log) < MaxAttempts
           /\ error_count' = logged.error_count
           /\ warning_count' = logged.warning_count
           /\ IF logged.exited
              THEN /\ pc' = "exited"
                   /\ cur' = <<>>
                   /\ summaries' =
                          main_finally(signal_received, logged.error_count).summaries
                   /\ UNCHANGED <<clock, request_log, cur_request_id>>
              ELSE /\ clock' = clock + 1
                   /\ request_log' = log_request(cur[1], cur[2], clock + 1, Success(outcome))
                   /\ cur_request_id' = lastrowid(request_log')
                   /\ UNCHANGED summaries
                   /\ IF outcome = "ok"
                      THEN pc' = "logged" /\ cur' = cur
                      ELSE pc' = "select" /\ cur' = <<>>
    /\ UNCHANGED <<impl, pipevars, planvars, fchunks, results, runvars, nodes, batch,
                   files_completed_this_run, signal_received>>

\* batch_doc_analyzer.py process_chunk, db.store_results and its commit
MonoStoreResults ==
    /\ impl = "mono"
    /\ pc = "logged"
    /\ results' = store_results(cur_request_id, cur[1], cur[2])
    /\ pc' = "select"
    /\ cur' = <<>>
    /\ UNCHANGED <<impl, pipevars, planvars, clock, fchunks, request_log, runvars, nodes,
                   error_count, warning_count, cur_request_id, batch,
                   files_completed_this_run, sigvars>>

\* batch_doc_analyzer.py Database._execute with the database refusing the
\* statement (locked, busy, any sqlite3 error): logger.critical_exit, that is
\* one more counted error and sys.exit(1); main's finally follows.  Here the
\* statement is the INSERT of log_request: the pipeline has run, no row is
\* written.
MonoLogRequestFails(outcome) ==
    /\ impl = "mono"
    /\ pc = "execute"
    /\ Possible(outcome)
    /\ request_sent' = SendsRequest(ChunkContent(cur))
    /\ LET logged == LogAll(error_count, warning_count,
                            PipelineLogs(outcome) \o <<"error">>)
       IN  /\ error_count' = logged.error_count
           /\ warning_count' = logged.warning_count
           /\ summaries' = main_finally(signal_received, logged.error_count).summaries
    /\ pc' = "exited"
    /\ cur' = <<>>
    /\ UNCHANGED <<impl, pipevars, planvars, clock, storevars, runvars, nodes, cur_request_id,
                   batch, files_completed_this_run, signal_received>>

\* the same with the INSERT of store_results refused: the attempt is
\* committed, the record is not written
MonoStoreResultsFails ==
    /\ impl = "mono"
    /\ pc = "logged"
    /\ error_count' = error_count + 1
    /\ summaries' = main_finally(signal_received, error_count + 1).summaries
    /\ pc' = "exited"
    /\ cur' = <<>>
    /\ UNCHANGED <<impl, pipevars, planvars, clock, storevars, runvars, nodes, warning_count,
                   cur_request_id, batch, files_completed_this_run, signal_received,
                   request_sent>>

\* gar_tool/main.py, steps 2 and 3 of the loop: every file not yet completed
\* whose cached text is not empty is asked for its pending chunks; a file
\* with none is completed; no file left: the run is done; otherwise
\* random.choice picks a file and its pending chunks are the batch
PkgSelect ==
    /\ impl = "pkg"
    /\ pc = "select"
    /\ \A f \in Files : chunk_exists(f)
    /\ LET asked == {f \in Files \ files_completed_this_run : FileText(f) # <<>>}
           files_needing_processing ==
               {f \in asked : Unprocessed(f, start_iso) # <<>>}
       IN  /\ files_completed_this_run' =
                  files_completed_this_run \cup (asked \ files_needing_processing)
           /\ IF files_needing_processing = {}
              THEN /\ pc' = "done"
                   /\ batch' = <<>>
                   /\ error_count' = main_finally(signal_received, error_count).error_count
              ELSE /\ pc' = "batch"
                   /\ \E f \in files_needing_processing :
                          batch' = Unprocessed(f, start_iso)
                   /\ UNCHANGED error_count
    /\ UNCHANGED <<impl, pipevars, planvars, clock, storevars, runvars, nodes, warning_count,
                   cur, cur_request_id, sigvars>>

\* gar_tool/main.py step 3 and 4 with gar_tool/analyzer.py process_chunk: the
\* next chunk of the batch goes through the pipeline; nothing reaches the
\* database (PkgStage3Logs); after the last chunk of the batch the file is
\* asked again and completed if nothing is pending
PkgProcessChunk(outcome) ==
    /\ impl = "pkg"
    /\ pc = "batch"
    /\ batch # <<>>
    /\ Possible(outcome)
    /\ request_sent' = SendsRequest(ChunkContent(Head(batch)))
    /\ LET logged == LogAll(error_count, warning_count,
                            PkgProcessLogs(ChunkContent(Head(batch)), outcome))
           file == Head(batch)[1]
       IN  /\ warning_count' = logged.warning_count
           /\ IF logged.exited
              THEN /\ pc' = "exited"
                   /\ batch' = <<>>
                   /\ error_count' =
                          main_finally(signal_received, logged.error_count).error_count
                   /\ UNCHANGED files_completed_this_run
              ELSE /\ batch' = Tail(batch)
                   /\ error_count' = logged.error_count
                   /\ IF Tail(batch) # <<>>
                      THEN pc' = "batch" /\ UNCHANGED files_completed_this_run
                      ELSE /\ pc' = "select"
                           /\ files_completed_this_run' =
                                  IF Unprocessed(file, start_iso) = <<>>
                                  THEN files_completed_this_run \cup {file}
                                  ELSE files_completed_this_run
    /\ UNCHANGED <<impl, pipevars, planvars, clock, storevars, runvars, nodes, cur,
                   cur_request_id, signal_received, summaries>>

\* SIGINT while the loop runs.  The handler runs in the main thread at once:
\* it sets the flag of its module, logs the summary of the run so far, closes
\* the database and calls sys.exit(0); the SystemExit unwinds main from
\* wherever it was, through no except clause, into main's finally.  What the
\* process was doing is dropped as it is.
\*   batch_doc_analyzer.py: the flag is the script's one global, the summary
\*   is made with the connection open, the finally finds the flag set.
\*   gar_tool: the flag is helpers.signal_received; Database has no
\*   get_run_summary, the handler logs the AttributeError (logger.exception),
\*   and the finally, reading main's own flag, logs it once more.
signal_handler ==
    /\ pc \in Running
    /\ signal_received' =
           IF impl = "mono" THEN [m \in Modules |-> TRUE]
           ELSE [signal_received EXCEPT !["helpers"] = TRUE]
    /\ IF impl = "mono"
       THEN /\ summaries' = Append(summaries, RunSummary(clock, TRUE))
            /\ UNCHANGED error_count
       ELSE /\ error_count' = main_finally(signal_received', error_count + 1).error_count
            /\ UNCHANGED summaries
    /\ pc' = "interrupted"
    /\ cur' = <<>>
    /\ cur_request_id' = -1
    /\ batch' = <<>>
    /\ files_completed_this_run' = {}
    /\ UNCHANGED <<impl, pipevars, planvars, clock, storevars, runvars, nodes, warning_count,
                   request_sent>>

\* the process is killed: what was committed stays, everything else is gone
Crash ==
    /\ pc \in Running
    /\ pc' = "crashed"
    /\ cur' = <<>>
    /\ cur_request_id' = -1
    /\ batch' = <<>>
    /\ files_completed_this_run' = {}
    /\ UNCHANGED <<impl, pipevars, planvars, clock, storevars, runvars, nodes, error_count,
                   warning_count, sigvars>>

(***************************************************************************)
(* One run over documents an earlier run has registered, the first of them *)
(* cut short on disk since: a chunk whose bounds lie past the end of the   *)
(* text has empty content.                                                 *)
(***************************************************************************)
\* what can be left of a text: its prefixes, the empty one and the whole
Prefixes(text) == {SubSeq(text, 1, n) : n \in 0..Len(text)}

\* FCHUNKS after the files were registered with the chunk size of that run
RECURSIVE RegisteredAll(_, _, _)
RegisteredAll(i, fs, size) ==
    IF fs = <<>> THEN <<>>
    ELSE ChunkRows(Head(fs), Plan(i, Content(Head(fs)), size))
             \o RegisteredAll(i, Tail(fs), size)

PipelineInit ==
    /\ impl \in Impls
    /\ nodes \in NodeConfigs
    /\ plan_pc = "disk"
    /\ text_content \in Prefixes(Content(listdir[1]))
    /\ chunk_size \in ChunkSizes
    /\ chunks = <<>>
    /\ clock = 1
    /\ fchunks = RegisteredAll(impl, listdir, chunk_size)
    /\ request_log = <<>>
    /\ results = {}
    /\ run_tag \in RunTags
    /\ max_failures \in MaxFailuresValues(impl)
    /\ start_iso = 1
    /\ runs = 1
    /\ pc = "select"
    /\ error_count = 0
    /\ warning_count = 0
    /\ cur = <<>>
    /\ cur_request_id = -1
    /\ batch = <<>>
    /\ files_completed_this_run = {}
    /\ signal_received = NoSignal
    /\ summaries = <<>>
    /\ request_sent = FALSE
    /\ response = <<>>
    /\ json_response = NoJson
    /\ result = NoResult

PipelineNext ==
    \/ MonoSelect
    \/ \E outcome \in Outcomes : MonoProcessChunk(outcome)
    \/ MonoStoreResults
    \/ PkgSelect
    \/ \E outcome \in Outcomes : PkgProcessChunk(outcome)

PipelineSpec == PipelineInit /\ [][PipelineNext]_vars

Next ==
    \/ StartRun
    \/ \E f \in Files : Discover(f)
    \/ MonoSelect
    \/ \E outcome \in Outcomes : MonoProcessChunk(outcome)
    \/ MonoStoreResults
    \/ PkgSelect
    \/ \E outcome \in Outcomes : PkgProcessChunk(outcome)
    \/ \E outcome \in Outcomes : MonoLogRequestFails(outcome)
    \/ MonoStoreResultsFails
    \/ signal_handler
    \/ Crash

Spec == Init /\ [][Next]_vars

(***************************************************************************)
(* Properties of the run loop.                                             *)
(***************************************************************************)
AllRegistered == UNION {Registered(f) : f \in Files}

\* the records of a chunk under a tag
Records(k, tag) ==
    {r \in results : r.file = k[1] /\ r.chunknumber = k[2] /\ r.run_tag = tag}

\* the chunk the pipeline is about to run on, if the process is there
AboutToProcess ==
    IF pc = "execute" THEN {cur}
    ELSE IF pc = "batch" /\ batch # <<>> THEN {Head(batch)}
    ELSE {}

\* the successful attempts no record refers to, the one whose store_results
\* is still to come left aside
Orphans ==
    {i \in 1..Len(request_log) :
        /\ request_log[i].success
        /\ ~\E r \in results : r.request_id = i
        /\ ~(pc = "logged" /\ i = cur_request_id)}

\* C4: in every state the run loop reaches, over any number of runs and
\* kills, a chunk has at most one record under one run tag.
C4_OneRecordPerTag ==
    \A k \in AllRegistered : \A tag \in RunTags : Cardinality(Records(k, tag)) <= 1

\* a second run under the tag of an earlier one has stored a record, and a
\* chunk recorded before that run started is not pending
C4_Witness ==
    /\ runs >= 2
    /\ \E r1 \in results, r2 \in results :
         /\ r1.run_tag = run_tag
         /\ r2.run_tag = run_tag
         /\ request_log[r1.request_id].timestamp < start_iso
         /\ request_log[r2.request_id].timestamp > start_iso

\* C5: a run never sends a chunk through the pipeline that has a record under
\* the run's tag, whichever run stored it.
C5_DoneNotProcessed ==
    \A k \in AboutToProcess : ~HasRecord(k, run_tag)

\* a resumed run is about to process a chunk while another chunk has a record
\* under its tag from before the run started
C5_Witness ==
    /\ runs >= 2
    /\ AboutToProcess # {}
    /\ \E r \in results :
         /\ r.run_tag = run_tag
         /\ request_log[r.request_id].timestamp < start_iso

C8_RunCompletes ==
    /\ pc \in {"done", "exited"} =>
         \A k \in AllRegistered :
             HasRecord(k, run_tag) \/ Cardinality(FailedThisRun(k)) >= max_failures
    /\ pc # "crashed" =>
         Cardinality({i \in 1..Len(request_log) :
                         /\ request_log[i].timestamp >= start_iso
                         /\ ~\E r \in results : r.request_id = i
                         /\ ~(pc = "logged" /\ i = cur_request_id)})
             <= Cardinality(AllRegistered) * max_failures

\* C9: every record refers to an attempt that is in REQUEST_LOG, is a
\* success and is on the record's document and chunk; a failed attempt has
\* no record.
C9_RecordHasAttempt ==
    \A r \in results :
        /\ r.request_id \in 1..Len(request_log)
        /\ request_log[r.request_id].success
        /\ request_log[r.request_id].file = r.file
        /\ request_log[r.request_id].chunknumber = r.chunknumber

\* a record and a failed attempt on the same chunk
C9_Witness ==
    \E r \in results : \E i \in 1..Len(request_log) :
        /\ ~request_log[i].success
        /\ request_log[i].file = r.file
        /\ request_log[i].chunknumber = r.chunknumber

\* C10: a successful attempt left without a record by a kill between the two
\* commits does not stop its chunk from being pending in a run that resumes
\* with the tag, and a chunk processed again has exactly one record.
C10_CrashBetweenCommits ==
    \A i \in Orphans :
        LET k == <<request_log[i].file, request_log[i].chunknumber>>
        IN  /\ ( /\ ~HasRecord(k, run_tag)
                 /\ Cardinality(FailedThisRun(k)) < max_failures ) => k \in Pending(k[1])
            /\ \A tag \in RunTags : Cardinality(Records(k, tag)) <= 1

\* the chunk of an attempt orphaned before this run started (with a node
\* expected, a success is left without a record only by a process that ended
\* between the two commits) was processed again in this run and has exactly
\* one record
C10_Witness ==
    /\ nodes = "required"
    /\ \E i \in Orphans :
         LET k == <<request_log[i].file, request_log[i].chunknumber>>
         IN  /\ request_log[i].timestamp < start_iso
             /\ Cardinality(Records(k, run_tag)) = 1
             /\ \E r \in Records(k, run_tag) :
                    request_log[r.request_id].timestamp > start_iso

\* C11: REQUEST_LOG is append-only: after any step the log is the log before
\* the step with zero or more rows appended; no row is changed or removed.
C11_AppendOnly ==
    [][ /\ Len(request_log') >= Len(request_log)
        /\ SubSeq(request_log', 1, Len(request_log)) = request_log ]_vars

\* a later run has appended to the rows an earlier run left
C11_Witness ==
    \E i, j \in 1..Len(request_log) :
        /\ request_log[i].timestamp < start_iso
        /\ request_log[j].timestamp > start_iso
        /\ request_log[i].file = request_log[j].file
        /\ request_log[i].chunknumber = request_log[j].chunknumber

\* C12: the chunk rows of a document are written at most once over all runs:
\* a step that changes FCHUNKS appends the rows of one document that had
\* none, and leaves every row there was as it was (file, number, start and
\* end), whatever chunk_size the run has.
C12_RegisteredOnce ==
    [][ fchunks' # fchunks =>
          /\ Len(fchunks') > Len(fchunks)
          /\ SubSeq(fchunks', 1, Len(fchunks)) = fchunks
          /\ \E f \in Files :
                /\ Registered(f) = {}
                /\ \A i \in (Len(fchunks) + 1)..Len(fchunks') : fchunks'[i].file = f ]_vars

\* a second run whose chunk_size would plan a registered document otherwise
\* has gone past discovery and processed a chunk of the plan it found
C12_Witness ==
    /\ runs = 2
    /\ \E f \in Files :
          /\ Registered(f) # {}
          /\ SelectSeq(fchunks, LAMBDA c : c.file = f)
                 # ChunkRows(f, Plan(impl, Content(f), chunk_size))
          /\ \E i \in 1..Len(request_log) :
                 /\ request_log[i].file = f
                 /\ request_log[i].timestamp > start_iso

\* C13: once an interrupt has been delivered no request is started any more,
\* the flag the handler sets being the flag main's loop and the pipeline's
\* test before the request read: every module sees the flag set as soon as
\* the handler's module does, and with it set the process is in no step of
\* the loop.
C13_SharedCancellationFlag ==
    /\ \A m \in Modules : signal_received[m] = signal_received["helpers"]
    /\ (\E m \in Modules : signal_received[m]) => pc \notin Running

\* C14: an interrupt that arrives with a chunk in the pipeline lets that one
\* unit of work finish: the step that ends the run on the interrupt has the
\* attempt of the chunk recorded.
C14_InFlightCompletes ==
    [][ (AboutToProcess # {} /\ pc' = "interrupted") =>
            /\ Len(request_log') = Len(request_log) + 1
            /\ \A k \in AboutToProcess :
                   /\ request_log'[Len(request_log')].file = k[1]
                   /\ request_log'[Len(request_log')].chunknumber = k[2] ]_vars

\* C15: a run ended by an interrupt has emitted exactly one summary, over the
\* window from the start of the run to the time of the interrupt, made while
\* the connection was open; the summary of the finally block is not added.
C15_OneSummaryOnCancel ==
    pc = "interrupted" => summaries = <<RunSummary(clock, TRUE)>>

\* C16: with more errors logged than MAX_PASSABLE_EXECUTION_ERRORS or more
\* warnings than MAX_PASSABLE_WARNINGS the run is over: the process is in no
\* step of the loop, no chunk is chosen and none is in the pipeline.
C16_BudgetExit ==
    (error_count > MAX_PASSABLE_EXECUTION_ERRORS \/ warning_count > MAX_PASSABLE_WARNINGS)
        => /\ pc \notin Running
           /\ AboutToProcess = {}
           /\ cur = <<>>
           /\ batch = <<>>

\* a run ended by the eleventh warning, the errors within their limit when
\* it was logged
C16_Witness ==
    /\ pc = "exited"
    /\ warning_count = MAX_PASSABLE_WARNINGS + 1
    /\ error_count <= MAX_PASSABLE_EXECUTION_ERRORS + 1

C18_StoreFailureFatal ==
    [][ ( \/ AboutToProcess # {} /\ request_log' = request_log
          \/ pc = "logged" /\ results' = results )
        => pc' \notin Running ]_vars

\* C19: a step of the pipeline whose request fails in transport or whose
\* response has no content is no fault of the process: unless the logger's
\* budget ends the run, the step appends a failed attempt on its chunk to
\* REQUEST_LOG and the loop goes on.
C19_TransportFailureLogged ==
    [][ (\E outcome \in {"transport", "envelope"} :
            MonoProcessChunk(outcome) \/ PkgProcessChunk(outcome))
        => \/ pc' = "exited"
           \/ /\ pc' \in Running
              /\ Len(request_log') = Len(request_log) + 1
              /\ ~request_log'[Len(request_log')].success
              /\ \A k \in AboutToProcess :
                     /\ request_log'[Len(request_log')].file = k[1]
                     /\ request_log'[Len(request_log')].chunknumber = k[2] ]_vars

\* C20: process_chunk on a chunk whose content is empty sends no request and
\* does not come back with a success.
C20_EmptyContentNoRequest ==
    [][ ( /\ \E k \in AboutToProcess : ChunkContent(k) = <<>>
          /\ \E outcome \in Outcomes :
                 MonoProcessChunk(outcome) \/ PkgProcessChunk(outcome) )
        => /\ ~request_sent'
           /\ ~( /\ Len(request_log') > Len(request_log)
                 /\ request_log'[Len(request_log')].success ) ]_vars

\* C29: no chunk of a plan is longer than chunk_size.
C29_ChunkWithinSize ==
    plan_pc = "planned" =>
        \A i \in 1..Len(chunks) : chunks[i][2] - chunks[i][1] <= chunk_size

\* a plan of several chunks with a chunk of the full size after a chunk that
\* was cut short at a boundary
C29_Witness ==
    /\ plan_pc = "planned"
    /\ \E i, j \in 1..Len(chunks) :
          /\ i < j
          /\ chunks[i][2] - chunks[i][1] < chunk_size
          /\ chunks[j][2] - chunks[j][1] = chunk_size

\* C30 as stated: a document of more than two and at most three chunk sizes
\* is planned into exactly 3 chunks.
C30_ExactlyThreeChunks ==
    ( /\ plan_pc = "planned"
      /\ 2 * chunk_size < Len(text_content)
      /\ Len(text_content) <= 3 * chunk_size ) => Len(chunks) = 3

\* C30 as the code has it: such a document is planned into at least 3 chunks
\* and at most one chunk per character; into exactly 3 if it has no newline
\* and no sentence terminator, so that every cut is at the full size.
C30_AtLeastThreeChunks ==
    ( /\ plan_pc = "planned"
      /\ 2 * chunk_size < Len(text_content)
      /\ Len(text_content) <= 3 * chunk_size )
    => /\ Len(chunks) >= 3
       /\ Len(chunks) <= Len(text_content)
       /\ (\A i \in 1..Len(text_content) :
               ~IsTerminator(text_content[i]) /\ text_content[i] # "\n")
          => Len(chunks) = 3

\* a document of five characters planned with chunk size 2 into more than 3
\* chunks, a cut at a boundary having left a chunk short
C30_Witness ==
    /\ plan_pc = "planned"
    /\ chunk_size = 2
    /\ Len(text_content) = 5
    /\ Len(chunks) > 3


(***************************************************************************)
(* Re-registration: a caller of the store that leaves chunk_exists out.    *)
(***************************************************************************)
\* the rows FCHUNKS holds for a document
RowsOf(f) == SelectSeq(fchunks, LAMBDA c : c.file = f)

\* the plan of a document as it was registered: the params insert_chunks
\* built from it, read back
StoredPlan(f) ==
    [i \in 1..Cardinality(Registered(f)) |->
        LET c == CHOOSE r \in Range(fchunks) : r.file = f /\ r.chunknumber = i - 1
        IN  <<c.start, c.end>>]

\* insert_chunks called a second time with the document and plan of the first
\* call. The package appends the rows and commits; in the script the
\* duplicate key fails executemany, nothing is committed and
\* logger.critical_exit ends the process
StoreReRegister ==
    /\ pc = "store"
    /\ \E f \in StoreFiles :
         /\ Registered(f) # {}
         /\ Len(RowsOf(f)) = Cardinality(Registered(f))
         /\ fchunks' = register_chunks(f, StoredPlan(f))
    /\ pc' = IF impl = "pkg" THEN "store" ELSE "exited"
    /\ UNCHANGED <<impl, pipevars, planvars, clock, request_log, results, runvars, procvars, sigvars>>

ReRegisterSpec == StoreInit /\ [][StoreNext \/ StoreReRegister]_vars

\* C26: a second insert_chunks with the same document and chunks, made
\* without chunk_exists, succeeds and leaves every chunk of the document
\* twice in FCHUNKS.
C26_ReRegisterLeavesDuplicates ==
    [][StoreReRegister =>
        /\ pc' = "store"
        /\ \A f \in StoreFiles :
             Registered(f) # {} => Len(SelectSeq(fchunks', LAMBDA c : c.file = f))
                                     = 2 * Cardinality(Registered(f))]_vars


\* C27: a chunk whose only records are under another run_tag, and which has
\* fewer than max_failures failed attempts since the run started, is
\* returned by the pending query of the run.
C27_OtherTagStillPending ==
    \A f \in Files : \A k \in Registered(f) :
        ( /\ \E tag \in RunTags \ {run_tag} : HasRecord(k, tag)
          /\ ~HasRecord(k, run_tag)
          /\ Cardinality(FailedThisRun(k)) < max_failures )
        => k \in Pending(f)

\* a second run under another tag: the chunk has a record under the tag of
\* the first run, none under the tag of this run, and is returned
C27_Witness ==
    /\ runs >= 2
    /\ \E f \in Files : \E k \in Pending(f) :
         /\ \E tag \in RunTags \ {run_tag} : HasRecord(k, tag)
         /\ ~HasRecord(k, run_tag)
         /\ Cardinality(FailedThisRun(k)) < max_failures


(***************************************************************************)
(* The run summary: the queries behind the counts it reports.              *)
(***************************************************************************)
\* SELECT id FROM REQUEST_LOG WHERE timestamp >= ? AND timestamp <= ?
IdsInWindow(start, end) ==
    {i \in 1..Len(request_log) :
        start <= request_log[i].timestamp /\ request_log[i].timestamp <= end}

\* Database.get_all_skipped_chunks_for_run: the groups of failed rows in the
\* window with HAVING failures >= max_failures; a chunk without a failed row
\* in the window has no group
get_all_skipped_chunks_for_run(start, end) ==
    {k \in {<<request_log[i].file, request_log[i].chunknumber>> :
                i \in {j \in IdsInWindow(start, end) : ~request_log[j].success}} :
        Cardinality({i \in IdsInWindow(start, end) :
                        /\ request_log[i].file = k[1]
                        /\ request_log[i].chunknumber = k[2]
                        /\ ~request_log[i].success}) >= max_failures}

\* gar_tool/database_handler.py Database.get_run_summary_stats: the rows of
\* REQUEST_LOG in the window, and the rows of the results table whose
\* request_id is one of them (under the run_tag, when it is set)
get_run_summary_stats(start, end) ==
    [llm_calls |-> Cardinality(IdsInWindow(start, end)),
     successes |-> Cardinality({r \in results :
                        /\ r.request_id \in IdsInWindow(start, end)
                        /\ (run_tag # "" => r.run_tag = run_tag)})]

\* batch_doc_analyzer.py Database.get_run_summary: the two counts of its text
mono_get_run_summary(start, end) ==
    [llm_calls |-> Cardinality(IdsInWindow(start, end)),
     successes |-> Cardinality({r \in results : r.request_id \in IdsInWindow(start, end)})]

\* the counts of the implementation that runs
SummaryStats(start, end) ==
    IF impl = "pkg" THEN get_run_summary_stats(start, end)
    ELSE mono_get_run_summary(start, end)

\* the chunks with at least max_failures failed attempts in the window
ExhaustedIn(start, end) ==
    UNION {{k \in Registered(f) :
               Cardinality(FailedAttempts(k, start, end + 1)) >= max_failures} : f \in Files}

\* the records whose attempt lies in the window
RecordsIn(start, end) == {r \in results : r.request_id \in IdsInWindow(start, end)}

\* C28: over the window of the run, the summary reports the attempts of the
\* window, the records whose attempt lies in the window, and as exhausted the
\* chunks with at least max_failures failed attempts in the window; the
\* successes never exceed the attempts.
C28_SummaryCounts ==
    /\ SummaryStats(start_iso, clock).llm_calls = Cardinality(IdsInWindow(start_iso, clock))
    /\ SummaryStats(start_iso, clock).successes = Cardinality(RecordsIn(start_iso, clock))
    /\ get_all_skipped_chunks_for_run(start_iso, clock) = ExhaustedIn(start_iso, clock)
    /\ SummaryStats(start_iso, clock).successes <= SummaryStats(start_iso, clock).llm_calls


\* C25: when the loop selects, with every document registered, each chunk
\* pending at that moment, of whatever document, can be the one item the
\* next execute step processes.
C25_AnyPendingItemNext ==
    (pc = "select" /\ \A f \in Files : chunk_exists(f)) =>
        \A k \in UNION {Pending(f) : f \in Files} :
            ENABLED ( \/ MonoSelect /\ cur' = k
                      \/ PkgSelect /\ batch' # <<>> /\ Head(batch') = k )


(***************************************************************************)
(* The response pipeline: clean_json_response and the node check of        *)
(* process_chunk, on an answer written as tokens.                          *)
(*   "{" "}"  the braces          "k"   the member "a": 1                  *)
(*   "J"      ```json             "F"   ```                                *)
(*   "\n"     white space         "x"   any other text                     *)
(***************************************************************************)
MaxRespLen == 5

Tokens == {"{", "}", "k", "x", "\n", "J", "F"}

\* the answers of the service
Responses == UNION {[1..n -> Tokens] : n \in 0..MaxRespLen}

\* the configurations of nodes: none, node "a" required, node "a" optional
PipeConfigs == NodeConfigs \cup {"optional"}

\* the nodes process_chunk of the package wants: those with required set
RequiredNodes(cfg) == IF cfg = "required" THEN {"a"} ELSE {}

\* config.expected_json_nodes: every key of the nodes dictionary
expected_json_nodes(cfg) == IF cfg = "none" THEN {} ELSE {"a"}

\* json.JSONDecodeError
JSONDecodeError == [kind |-> "error", keys |-> {}]

\* the empty string as a value
EmptyString == [kind |-> "string", keys |-> {}]

\* str.strip
strip(s) ==
    LET inked == {i \in 1..Len(s) : s[i] # "\n"}
    IN  IF inked = {} THEN <<>>
        ELSE SubSeq(s, CHOOSE i \in inked : \A j \in inked : i <= j,
                       CHOOSE i \in inked : \A j \in inked : j <= i)

\* json.loads: a JSON object with at most the one member, white space allowed
\* around it and inside it; anything else raises
json_loads(s) ==
    LET t == strip(s)
    IN  IF /\ Len(t) >= 2
           /\ t[1] = "{"
           /\ t[Len(t)] = "}"
           /\ \A i \in 2..(Len(t) - 1) : t[i] \in {"\n", "k"}
           /\ Cardinality({i \in 2..(Len(t) - 1) : t[i] = "k"}) <= 1
        THEN [kind |-> "object",
              keys |-> IF \E i \in 1..Len(t) : t[i] = "k" THEN {"a"} ELSE {}]
        ELSE JSONDecodeError

\* re.sub(r'^```json\s*', '', s, flags=re.MULTILINE) for pass = 1 and
\* re.sub(r'^```\s*', '', s, flags=re.MULTILINE) for pass = 2, from token i on:
\* a fence that starts a line goes with the white space after it; of a
\* ```json the second pass takes the back-ticks and leaves the word
RECURSIVE SubLineStart(_, _, _, _)
SubLineStart(s, i, eating, pass) ==
    IF i > Len(s) THEN <<>>
    ELSE IF eating /\ s[i] = "\n" THEN SubLineStart(s, i + 1, TRUE, pass)
    ELSE IF (i = 1 \/ s[i - 1] = "\n") /\ s[i] = "J" /\ pass = 1
         THEN SubLineStart(s, i + 1, TRUE, pass)
    ELSE IF (i = 1 \/ s[i - 1] = "\n") /\ s[i] = "F" /\ pass = 2
         THEN SubLineStart(s, i + 1, TRUE, pass)
    ELSE IF (i = 1 \/ s[i - 1] = "\n") /\ s[i] = "J" /\ pass = 2
         THEN <<"x">> \o SubLineStart(s, i + 1, FALSE, pass)
    ELSE <<s[i]>> \o SubLineStart(s, i + 1, FALSE, pass)

\* re.sub(r'\s*```$', '', s, flags=re.MULTILINE), the tokens up to i: a ```
\* that ends a line goes with the white space before it
RECURSIVE SubLineEnd(_, _, _)
SubLineEnd(s, i, eating) ==
    IF i = 0 THEN <<>>
    ELSE IF eating /\ s[i] = "\n" THEN SubLineEnd(s, i - 1, TRUE)
    ELSE IF s[i] = "F" /\ (i = Len(s) \/ s[i + 1] = "\n")
         THEN SubLineEnd(s, i - 1, TRUE)
    ELSE SubLineEnd(s, i - 1, FALSE) \o <<s[i]>>

\* the try block of clean_json_response without its three re.sub calls
cleaned_response_plain(resp) == strip(resp)

\* clean_json_response, the try block: cleaned_response before json.loads
cleaned_response(resp) ==
    LET marked == SubLineStart(SubLineStart(strip(resp), 1, FALSE, 1), 1, FALSE, 2)
    IN  strip(SubLineEnd(marked, Len(marked), FALSE))

\* DocumentAnalyzer._aggressive_json_cleaning: the interior of the first
\* ```json ... ``` if it is valid JSON, the response as it is otherwise
_aggressive_json_cleaning(resp) ==
    LET opens == {i \in 1..Len(resp) :
                     resp[i] = "J" /\ \E j \in (i + 1)..Len(resp) : resp[j] \in {"J", "F"}}
    IN  IF opens = {} THEN resp
        ELSE LET i == CHOOSE a \in opens : \A b \in opens : a <= b
                 closes == {j \in (i + 1)..Len(resp) : resp[j] \in {"J", "F"}}
                 j == CHOOSE a \in closes : \A b \in closes : a <= b
                 json_string == strip(SubSeq(resp, i + 1, j - 1))
             IN  IF json_loads(json_string) # JSONDecodeError THEN json_string ELSE resp

\* DocumentAnalyzer._super_aggressive_json_cleaning: response[start:end + 1]
\* from the first "{" to the last "}" if it is valid JSON, else the response
_super_aggressive_json_cleaning(resp) ==
    LET starts == {i \in 1..Len(resp) : resp[i] = "{"}
        ends == {i \in 1..Len(resp) : resp[i] = "}"}
    IN  IF starts = {} \/ ends = {} THEN resp
        ELSE LET start == CHOOSE a \in starts : \A b \in starts : a <= b
                 end == CHOOSE a \in ends : \A b \in ends : b <= a
                 sliced == SubSeq(resp, start, end)
             IN  IF json_loads(sliced) # JSONDecodeError THEN sliced ELSE resp

\* DocumentAnalyzer.clean_json_response: the value returned and the stage
\* that returned it (1 the try block, 2 aggressive, 3 super-aggressive,
\* 0 neither: the empty response handed back, or None)
clean_json_response(resp) ==
    IF resp = <<>> THEN [stage |-> 0, data |-> EmptyString]
    ELSE IF json_loads(cleaned_response(resp)) # JSONDecodeError
         THEN [stage |-> 1, data |-> json_loads(cleaned_response(resp))]
    ELSE IF json_loads(_aggressive_json_cleaning(resp)) # JSONDecodeError
         THEN [stage |-> 2, data |-> json_loads(_aggressive_json_cleaning(resp))]
    ELSE IF json_loads(_super_aggressive_json_cleaning(resp)) # JSONDecodeError
         THEN [stage |-> 3, data |-> json_loads(_super_aggressive_json_cleaning(resp))]
    ELSE [stage |-> 0, data |-> None]

\* the logger calls of clean_json_response, given what it returned
CleanLogs(resp, json) ==
    IF resp = <<>> \/ json.data # None THEN <<>>
    ELSE IF (\E i \in 1..Len(resp) : resp[i] = "{") /\ (\E i \in 1..Len(resp) : resp[i] = "}")
         THEN <<"error", "warning">>
    ELSE <<"warning", "warning">>

\* node in json_response
Contains(data, node) == data.kind = "object" /\ node \in data.keys

\* batch_doc_analyzer.py process_chunk, from the cleaned answer to the result
mono_ProcessingResult(cfg, json) ==
    IF json.data = None THEN [success |-> FALSE, extracted_data |-> None]
    ELSE IF \E node \in expected_json_nodes(cfg) : ~Contains(json.data, node)
         THEN [success |-> FALSE, extracted_data |-> None]
    ELSE [success |-> TRUE, extracted_data |-> json.data]

\* gar_tool/analyzer.py process_chunk, Stage 2 from the cleaned answer on
pkg_ProcessingResult(cfg, json) ==
    IF json.data = None THEN [success |-> FALSE, extracted_data |-> None]
    ELSE IF \E node \in RequiredNodes(cfg) : ~Contains(json.data, node)
         THEN [success |-> FALSE, extracted_data |-> json.data]
    ELSE [success |-> TRUE, extracted_data |-> json.data]

\* the result of the implementation that runs
ProcessingResult(i, cfg, json) ==
    IF i = "pkg" THEN pkg_ProcessingResult(cfg, json) ELSE mono_ProcessingResult(cfg, json)

\* an answer of the service is about to go through the pipeline
AnalyzeInit ==
    /\ impl \in Impls
    /\ plan_pc = "unused"
    /\ text_content = <<>>
    /\ chunk_size = 1
    /\ chunks = <<>>
    /\ clock = 1
    /\ fchunks = <<>>
    /\ request_log = <<>>
    /\ results = {}
    /\ run_tag = "A"
    /\ max_failures = 1
    /\ start_iso = 1
    /\ runs = 1
    /\ pc = "answered"
    /\ nodes \in PipeConfigs
    /\ error_count = 0
    /\ warning_count = 0
    /\ cur = <<>>
    /\ cur_request_id = -1
    /\ batch = <<>>
    /\ files_completed_this_run = {}
    /\ signal_received = NoSignal
    /\ summaries = <<>>
    /\ request_sent = TRUE
    /\ response \in Responses
    /\ json_response = NoJson
    /\ result = NoResult

\* process_chunk from the answer to the result it logs: the cleaning with its
\* logger calls, then the node check
Analyze ==
    /\ pc = "answered"
    /\ json_response' = clean_json_response(response)
    /\ result' = ProcessingResult(impl, nodes, json_response')
    /\ error_count' = LogAll(error_count, warning_count, CleanLogs(response, json_response')).error_count
    /\ warning_count' = LogAll(error_count, warning_count, CleanLogs(response, json_response')).warning_count
    /\ pc' = "analyzed"
    /\ UNCHANGED <<impl, response, planvars, clock, storevars, runvars, nodes, cur,
                   cur_request_id, batch, files_completed_this_run, sigvars>>

AnalyzeSpec == AnalyzeInit /\ [][Analyze]_vars


\* the kinds of answer the properties speak of:
\*   clean     the whole answer, white space aside, is a JSON object
\*   fenced    the answer is one block ```json ... ``` around a JSON object
\*   embedded  such a block with other text before or after it
\*   noisy     a JSON object with other text around it and no fence
\*   plain     text without a brace
\*   empty     the empty string
Shape(resp) ==
    LET t == strip(resp)
        n == Len(resp)
        Of(c) == {i \in 1..n : resp[i] = c}
        fences == Of("J") \cup Of("F")
        braces == Of("{") \cup Of("}")
        j == CHOOSE i \in Of("J") : TRUE
        f == CHOOSE i \in Of("F") : TRUE
        b == CHOOSE i \in Of("{") : \A a \in Of("{") : i <= a
        e == CHOOSE i \in Of("}") : \A a \in Of("}") : a <= i
    IN  IF resp = <<>> THEN "empty"
        ELSE IF json_loads(resp) # JSONDecodeError THEN "clean"
        ELSE IF /\ Len(t) >= 2 /\ t[1] = "J" /\ t[Len(t)] = "F"
                /\ json_loads(SubSeq(t, 2, Len(t) - 1)) # JSONDecodeError
             THEN "fenced"
        ELSE IF /\ Cardinality(Of("J")) = 1 /\ Cardinality(Of("F")) = 1 /\ j < f
                /\ json_loads(SubSeq(resp, j + 1, f - 1)) # JSONDecodeError
                /\ Of("x") # {}
                /\ \A i \in (1..n) \ (j..f) : resp[i] \in {"x", "\n"}
             THEN "embedded"
        ELSE IF /\ fences = {} /\ Of("{") # {} /\ Of("}") # {} /\ b < e
                /\ json_loads(SubSeq(resp, b, e)) # JSONDecodeError
                /\ Of("x") # {}
                /\ \A i \in (1..n) \ (b..e) : resp[i] \in {"x", "\n"}
             THEN "noisy"
        ELSE IF braces = {} THEN "plain"
        ELSE "other"

\* the JSON object of an answer that has one: what is left of it without
\* fences, other text and white space
ObjectOf(resp) == json_loads(SelectSeq(resp, LAMBDA c : c \in {"{", "}", "k"}))

\* C21 as claimed: clean JSON is returned by the first stage; an answer that
\* is a fenced json block fails the first stage and is returned by the
\* second; a JSON object in noise is returned by the third; text without
\* braces gives None.
C21_TiersAsClaimed ==
    pc = "analyzed" =>
        /\ Shape(response) = "clean" =>
               json_response = [stage |-> 1, data |-> ObjectOf(response)]
        /\ Shape(response) = "fenced" =>
               json_response = [stage |-> 2, data |-> ObjectOf(response)]
        /\ Shape(response) = "noisy" =>
               json_response = [stage |-> 3, data |-> ObjectOf(response)]
        /\ Shape(response) = "plain" => json_response = [stage |-> 0, data |-> None]

\* C21 as the code has it: the first stage takes the fence markers off the
\* line starts and line ends before it parses, so clean JSON and an answer
\* that is nothing but a fenced json block are both returned by the first
\* stage; the second stage returns a fenced json block that has other text
\* around it; a JSON object in noise is returned by the third; text without
\* braces gives None, and the empty answer is handed back as it is.
C21_TiersInOrder ==
    pc = "analyzed" =>
        /\ Shape(response) = "clean" =>
               json_response = [stage |-> 1, data |-> ObjectOf(response)]
        /\ Shape(response) = "fenced" =>
               json_response = [stage |-> 1, data |-> ObjectOf(response)]
        /\ Shape(response) = "embedded" =>
               json_response = [stage |-> 2, data |-> ObjectOf(response)]
        /\ Shape(response) = "noisy" =>
               json_response = [stage |-> 3, data |-> ObjectOf(response)]
        /\ Shape(response) = "plain" => json_response = [stage |-> 0, data |-> None]
        /\ Shape(response) = "empty" => json_response = [stage |-> 0, data |-> EmptyString]

\* the answer ```json {"a": 1} ``` has gone through: the first stage
\* returned the object
C21_Witness ==
    /\ pc = "analyzed"
    /\ response = <<"J", "{", "k", "}", "F">>
    /\ json_response = [stage |-> 1, data |-> [kind |-> "object", keys |-> {"a"}]]


\* C22: the pipeline returns success exactly when a salvage stage parsed the
\* answer and every node configured as required is a key of the parsed data;
\* a node not marked required may be absent.
C22_SuccessIffParsedAndRequired ==
    pc = "analyzed" =>
        ( result.success <=>
            /\ json_response.stage \in 1..3
            /\ \A node \in RequiredNodes(nodes) : Contains(json_response.data, node) )

\* C23: a parsed answer with a required node missing gives a failure that
\* keeps the parsed data; an answer no stage could parse gives a failure
\* with no data.
C23_FailureKindsDistinct ==
    pc = "analyzed" =>
        /\ ( /\ json_response.stage \in 1..3
             /\ \E node \in RequiredNodes(nodes) : ~Contains(json_response.data, node) )
           => result = [success |-> FALSE, extracted_data |-> json_response.data]
        /\ json_response.data = None
           => result = [success |-> FALSE, extracted_data |-> None]


(***************************************************************************)
(* store_results with the data it is given: the row it inserts and the     *)
(* logger calls it makes.                                                   *)
(***************************************************************************)
\* the store of a run under any configuration of nodes
RecordInit ==
    /\ impl \in Impls
    /\ plan_pc = "unused"
    /\ text_content = <<>>
    /\ chunk_size = 1
    /\ chunks = <<>>
    /\ clock = 1
    /\ fchunks = <<>>
    /\ request_log = <<>>
    /\ results = {}
    /\ run_tag \in RunTags
    /\ max_failures = 1
    /\ start_iso = 1
    /\ runs = 1
    /\ pc = "store"
    /\ nodes \in PipeConfigs
    /\ error_count = 0
    /\ warning_count = 0
    /\ cur = <<>>
    /\ cur_request_id = -1
    /\ batch = <<>>
    /\ files_completed_this_run = {}
    /\ signal_received = NoSignal
    /\ summaries = <<>>
    /\ request_sent = FALSE
    /\ response = <<>>
    /\ json_response = NoJson
    /\ result = NoResult

\* Database.store_results(request_id, file, chunk_number, data) for an
\* attempt that has no row yet: one row with the column of each mapped node
\* set to data.get(node), NULL for a node the data lacks.  The script logs a
\* warning when the node is marked required and its value is None; the
\* package logs nothing.
StoreResultsData(data) ==
    /\ pc = "store"
    /\ \E id \in 1..Len(request_log) :
         /\ ~\E r \in results : r.request_id = id
         /\ results' = results \cup
                {[request_id |-> id, file |-> request_log[id].file,
                  chunknumber |-> request_log[id].chunknumber, run_tag |-> run_tag,
                  a |-> IF nodes = "none" THEN "no column"
                        ELSE IF Contains(data, "a") THEN "1" ELSE "NULL"]}
    /\ warning_count' =
           IF impl = "mono" /\ nodes = "required" /\ ~Contains(data, "a")
           THEN LogAll(error_count, warning_count, <<"warning">>).warning_count
           ELSE warning_count
    /\ UNCHANGED <<impl, pipevars, planvars, clock, fchunks, request_log, runvars, pc,
                   nodes, error_count, cur, cur_request_id, batch,
                   files_completed_this_run, sigvars>>

RecordSpec ==
    RecordInit /\ [][ \/ StoreInsertChunks
                      \/ StoreLogRequest
                      \/ \E keys \in SUBSET {"a"} :
                             StoreResultsData([kind |-> "object", keys |-> keys]) ]_vars

\* C24: store_results given data without a node marked required inserts
\* exactly one row, with NULL in the column of the node, logs one warning
\* and goes on.
C24_NullStoredWithWarning ==
    [][ (nodes = "required" /\ StoreResultsData([kind |-> "object", keys |-> {}])) =>
            /\ Cardinality(results') = Cardinality(results) + 1
            /\ \E r \in results' \ results : r.a = "NULL"
            /\ warning_count' = warning_count + 1
            /\ pc' = "store" ]_vars


\* C37: in a run with max_failures = 0 no chunk is pending and no request
\* goes to the service.
C37_ZeroBudgetNothingPending ==
    (pc \in Running /\ max_failures = 0) =>
        /\ \A f \in Files : Pending(f) = {}
        /\ ~request_sent


\* C31: for every content and every chunk_size > 0 the planner ends: each
\* pass of the loop moves start forward by at least one character, so there
\* are at most length(content) chunks and the safety limit of
\* length(content) + 100 passes is not reached.
C31_PlannerTerminates ==
    plan_pc = "planned" =>
        /\ \A i \in 1..Len(chunks) : chunks[i][2] > chunks[i][1]
        /\ Len(chunks) <= Len(text_content)

\* a text of MaxLen characters without any boundary, longer than two
\* windows: the loop went on by hard cuts alone
C31_Witness ==
    /\ plan_pc = "planned"
    /\ Len(text_content) = MaxLen
    /\ \A i \in 1..Len(text_content) : text_content[i] = "a"
    /\ chunk_size = 2
    /\ Len(chunks) = 3


\* the offset in a window at which the priority of boundaries puts the split:
\* the end of the last paragraph break (two line breaks with nothing but
\* white space between them), else just after the last line break, else just
\* after the last sentence terminator with white space behind it, else the
\* end of the window.  at_end: a terminator that is the last character of
\* the window counts as a sentence boundary too.
PrioritySplit(w, at_end) ==
    LET nl == {j \in 1..Len(w) : w[j] = "\n"}
        para == {j \in nl : \E i \in nl : i < j /\ \A k \in i..j : IsSpace(w[k])}
        sent == {j \in 2..Len(w) : IsTerminator(w[j - 1]) /\ IsSpace(w[j])}
                    \cup {j \in {Len(w)} : at_end /\ j >= 1 /\ IsTerminator(w[j])}
    IN  IF para # {} THEN SetMax(para)
        ELSE IF nl # {} THEN SetMax(nl)
        ELSE IF sent # {} THEN SetMax(sent)
        ELSE Len(w)

\* C32 as claimed, for the planner of the package: every chunk of a text
\* longer than chunk_size ends where the priority puts the split in its
\* window, a sentence terminator counting only with white space behind it.
C32_SplitByPriority ==
    (plan_pc = "planned" /\ impl = "pkg" /\ Len(text_content) > chunk_size) =>
        \A i \in 1..Len(chunks) :
            chunks[i][2] = chunks[i][1] +
                PrioritySplit(Slice(text_content, chunks[i][1], chunks[i][1] + chunk_size), FALSE)

\* C32 as the code has it: the same priority, with a sentence terminator
\* that is the last character of the window counting as a sentence boundary
\* (the split is then the end of the window, even if a terminator followed
\* by white space lies earlier in the window).
C32_SplitByPriorityOrWindowEnd ==
    (plan_pc = "planned" /\ impl = "pkg" /\ Len(text_content) > chunk_size) =>
        \A i \in 1..Len(chunks) :
            chunks[i][2] = chunks[i][1] +
                PrioritySplit(Slice(text_content, chunks[i][1], chunks[i][1] + chunk_size), TRUE)

\* a window of four characters with a paragraph break and, closer to its
\* end, a single line break: the chunk ends at the paragraph break
C32_Witness ==
    /\ plan_pc = "planned"
    /\ impl = "pkg"
    /\ chunk_size = 4
    /\ text_content = <<"\n", "\n", "a", "\n", "a">>
    /\ chunks[1] = <<0, 2>>


\* C38: the markdown tier of the package's planner never gives the split
\* point: in every window its pattern matches in, there is a line break, and
\* the chunk ends just after a line break, where the paragraph tier or the
\* line tier put it.
C38_MarkdownTierNeverDecides ==
    (plan_pc = "planned" /\ impl = "pkg" /\ Len(text_content) > chunk_size) =>
        \A i \in 1..Len(chunks) :
            finditer("markdown",
                     Slice(text_content, chunks[i][1], chunks[i][1] + chunk_size)) # <<>>
            => /\ \E j \in (chunks[i][1] + 1)..Min(chunks[i][1] + chunk_size, Len(text_content)) :
                      text_content[j] = "\n"
               /\ text_content[chunks[i][2]] = "\n"

\* the window "a\n- " has a list marker after its line break: the chunk
\* ends after the line break, not before the marker's line
C38_Witness ==
    /\ plan_pc = "planned"
    /\ impl = "pkg"
    /\ chunk_size = 4
    /\ text_content = <<"a", "\n", "-", " ", "a">>
    /\ finditer("markdown", Slice(text_content, 0, 4)) # <<>>
    /\ chunks[1] = <<0, 2>>


\* C33: every step of the loop that runs the pipeline on a chunk appends
\* exactly one row to REQUEST_LOG, and the row is of that chunk.
C33_OneAttemptPerStep ==
    [][\A k \in AboutToProcess :
           (\E outcome \in Outcomes :
               \/ MonoProcessChunk(outcome)
               \/ MonoLogRequestFails(outcome)
               \/ PkgProcessChunk(outcome))
           => /\ Len(request_log') = Len(request_log) + 1
              /\ SubSeq(request_log', 1, Len(request_log)) = request_log
              /\ Last(request_log').file = k[1]
              /\ Last(request_log').chunknumber = k[2]]_vars


\* C34: when the loop has ended the run by finding nothing left to do, no
\* chunk of a file whose text can be read is pending for the run.
C34_DoneMeansNothingPending ==
    pc = "done" => \A f \in Files : FileText(f) # <<>> => Pending(f) = {}

\* a run that ended so after it had worked: every file has chunks, and a
\* record or a failed attempt of this run is in the store
C34_Witness ==
    /\ pc = "done"
    /\ \A f \in Files : Registered(f) # {}
    /\ \E r \in results : r.run_tag = run_tag
    /\ \E i \in 1..Len(request_log) :
           ~request_log[i].success /\ request_log[i].timestamp >= start_iso


\* C35: when a step of the loop that ran the pipeline returns to the loop,
\* every successful row of REQUEST_LOG the step wrote has a record in the
\* results under its id.
C35_SuccessfulAttemptHasRecord ==
    [][(pc \in {"execute", "logged", "batch"} /\ pc' \in {"select", "batch"}) =>
           \A i \in 1..Len(request_log') :
               (/\ request_log'[i].success
                /\ i > Len(request_log) \/ (pc = "logged" /\ i = cur_request_id))
               => \E r \in results' : r.request_id = i]_vars


\* C36: within one run the pending set only shrinks: over every step of a
\* run that writes to the store or completes a file, a registered chunk that
\* is not pending before the step is not pending after it, and a file the
\* package's loop has completed for the run has no pending chunk.  (A step
\* that leaves the store and the run's start, tag and limit as they were
\* leaves the pending set as it was.)
C36_PendingOnlyShrinks ==
    [][(/\ runs' = runs
        /\ <<storevars, files_completed_this_run>>' # <<storevars, files_completed_this_run>>)
       => /\ \A f \in Files : (Pending(f))' \cap Registered(f) \subseteq Pending(f)
          /\ \A f \in files_completed_this_run' : (Pending(f))' = {}]_vars

\* the loop is running with a chunk that has left the pending set in this
\* run, one by its record and one by its failures, and another still pending
C36_Witness ==
    /\ pc = "select"
    /\ \E f \in Files : \E k \in Registered(f) \ Pending(f) :
           \E r \in results : r.file = k[1] /\ r.chunknumber = k[2] /\ r.request_id > 0
                                  /\ request_log[r.request_id].timestamp >= start_iso
    /\ \E f \in Files : \E k \in Registered(f) \ Pending(f) :
           ~\E r \in results : r.file = k[1] /\ r.chunknumber = k[2]
    /\ \E f \in Files : Pending(f) # {}

====
